---- MODULE Spec2Model ----
(***************************************************************************)
(* Model of PortfolioNetworkScanner (src/src/portfolio_scanner.py).        *)
(*                                                                         *)
(* Text is modelled at character level: a Python str is a TLA+ string, and *)
(* the str methods used by the scanner (lower, strip, split, startswith,   *)
(* "in", replace, list.index) are operators that compute what the Python   *)
(* methods compute.  The statistics extractor is a state machine that      *)
(* consumes one line of the captured output per step.                      *)
(***************************************************************************)
EXTENDS Integers, Sequences, FiniteSets, TLC

VARIABLES
    pc,               \* position of the running call
    caller,           \* "scan" when _parse_statistics runs inside scan(), "direct" otherwise
    target,           \* self.target
    profile,          \* argument of scan()
    cmd,              \* the shell command line built by scan()
    timeout,          \* timeout handed to subprocess.run (0 before the call)
    duration,         \* time the subprocess needs (environment input)
    proc,             \* captured process: returncode, stdout, stderr
    output,           \* argument of _parse_statistics
    lines,            \* output.split('\n')
    idx,              \* 1-based position of the for loop over lines
    current_host,     \* local of _parse_statistics
    in_port_section,  \* local of _parse_statistics
    stats,            \* the statistics dictionary being built
    result,           \* scan_result / partial_result of scan()
    path,             \* "none", "normal" or "timeout": which branch of scan() is running
    clock,            \* the wall clock, in seconds
    base_name,        \* base name computed by the running _save_reports
    written,          \* files opened for writing by the running scan() call, in order
    fs,               \* the output directory: file name -> kind of content
    saves,            \* number of _save_reports invocations that completed
    displayed,        \* whether _display_results completed
    returned,         \* value returned by scan(): "none", "full", "partial", "empty"
    raised,           \* exception that escaped scan(): "none" or its class name
    scan_profiles,    \* the class attribute SCAN_PROFILES, a mutable dict
    spawns,           \* number of scanning subprocesses started
    summary,          \* what _display_results printed, one entry per print of the summary
    env,              \* _validate_environment: outcome of the version check, what it
                      \* printed, and whether it raised SystemExit
    earlier,          \* the _save_reports invocation before the running one, if any
    output_dir,       \* self.output_dir, the directory __init__ was given and created
    converted         \* json_to_html: the file it was run on and what it returned

vars == <<pc, caller, target, profile, cmd, timeout, duration, proc, output,
          lines, idx, current_host, in_port_section, stats, result, path,
          clock, base_name, written, fs, saves, displayed, returned, raised,
          scan_profiles, spawns, summary, env, earlier, output_dir, converted>>

-----------------------------------------------------------------------------
(* Python str methods *)

UpperAlpha == "ABCDEFGHIJKLMNOPQRSTUVWXYZ"
LowerAlpha == "abcdefghijklmnopqrstuvwxyz"
Whitespace == {" ", "\t", "\r", "\n"}

CharAt(s, i) == SubSeq(s, i, i)
From(s, i) == SubSeq(s, i, Len(s))

UpperSet == {CharAt(UpperAlpha, i) : i \in 1..Len(UpperAlpha)}

LowerOf ==
    [u \in UpperSet |->
        CharAt(LowerAlpha, CHOOSE i \in 1..Len(UpperAlpha) : CharAt(UpperAlpha, i) = u)]

LowerChar(c) == IF c \in UpperSet THEN LowerOf[c] ELSE c

\* s.lower(), character by character; the string is halved to keep the recursion shallow
RECURSIVE lower(_)
lower(s) ==
    IF Len(s) <= 1 THEN LowerChar(s)
    ELSE lower(SubSeq(s, 1, Len(s) \div 2)) \o lower(SubSeq(s, (Len(s) \div 2) + 1, Len(s)))

\* sub in s
Contains(s, sub) ==
    \E i \in 1..(Len(s) - Len(sub) + 1) : SubSeq(s, i, i + Len(sub) - 1) = sub

\* s.find(sub), 1-based; 0 when absent
find(s, sub) ==
    IF Contains(s, sub)
    THEN CHOOSE i \in 1..(Len(s) - Len(sub) + 1) :
            /\ SubSeq(s, i, i + Len(sub) - 1) = sub
            /\ \A j \in 1..(i - 1) : SubSeq(s, j, j + Len(sub) - 1) # sub
    ELSE 0

startswith(s, prefix) == Len(s) >= Len(prefix) /\ SubSeq(s, 1, Len(prefix)) = prefix

RECURSIVE lstrip(_)
lstrip(s) == IF s # "" /\ CharAt(s, 1) \in Whitespace THEN lstrip(From(s, 2)) ELSE s

RECURSIVE rstrip(_)
rstrip(s) ==
    IF s # "" /\ CharAt(s, Len(s)) \in Whitespace THEN rstrip(SubSeq(s, 1, Len(s) - 1)) ELSE s

strip(s) == rstrip(lstrip(s))

\* s.split(sep)
RECURSIVE splitOn(_, _)
splitOn(s, sep) ==
    LET i == find(s, sep)
    IN  IF i = 0 THEN <<s>>
        ELSE <<SubSeq(s, 1, i - 1)>> \o splitOn(From(s, i + Len(sep)), sep)

\* length of the leading run of non-whitespace characters
tokenLen(s) ==
    LET blanks == {i \in 1..Len(s) : CharAt(s, i) \in Whitespace}
    IN  IF blanks = {} THEN Len(s)
        ELSE (CHOOSE i \in blanks : \A j \in blanks : i <= j) - 1

\* s.split(): split on runs of whitespace, no empty tokens
RECURSIVE split(_)
split(s) ==
    LET t == lstrip(s)
    IN  IF t = "" THEN <<>>
        ELSE <<SubSeq(t, 1, tokenLen(t))>> \o split(From(t, tokenLen(t) + 1))

\* s.replace(old, new)
RECURSIVE replace(_, _, _)
replace(s, old, new) ==
    LET i == find(s, old)
    IN  IF i = 0 THEN s
        ELSE SubSeq(s, 1, i - 1) \o new \o replace(From(s, i + Len(old)), old, new)

\* list.index(x), 1-based: the FIRST position holding x
index(seq, x) == CHOOSE i \in 1..Len(seq) : seq[i] = x /\ \A j \in 1..(i - 1) : seq[j] # x

\* '\n'.join(seq)
RECURSIVE join(_)
join(seq) ==
    IF Len(seq) = 0 THEN ""
    ELSE IF Len(seq) = 1 THEN seq[1]
    ELSE seq[1] \o "\n" \o join(Tail(seq))

\* any(k in s for k in keys)
AnyIn(keys, s) == \E k \in keys : Contains(s, k)

-----------------------------------------------------------------------------
(* _parse_statistics: the per-line rules *)

EmptyStats ==
    [hosts_up |-> 0, open_ports |-> <<>>, services |-> <<>>,
     scan_status |-> "unknown", vulnerabilities |-> <<>>]

\* host rules that fire only while no host rule has fired before
HostRule_FirstMatchWins(st, line_lower) ==
    IF st.scan_status # "unknown" THEN st
    ELSE IF Contains(line_lower, "nmap scan report for")
    THEN [st EXCEPT !.hosts_up = 1, !.scan_status = "host_found"]
    ELSE IF Contains(line_lower, "host is up")
            \/ (Contains(line_lower, "up") /\ Contains(line_lower, "host"))
    THEN [st EXCEPT !.hosts_up = 1, !.scan_status = "host_up"]
    ELSE IF Contains(line_lower, "0 hosts up") \/ Contains(line_lower, "host seems down")
    THEN [st EXCEPT !.hosts_up = 0, !.scan_status = "host_down"]
    ELSE st

\* a third rule that sets the status and leaves the count
HostRule_DownKeepsCount(st, line_lower) ==
    IF Contains(line_lower, "nmap scan report for")
    THEN [st EXCEPT !.hosts_up = 1, !.scan_status = "host_found"]
    ELSE IF Contains(line_lower, "host is up")
            \/ (Contains(line_lower, "up") /\ Contains(line_lower, "host"))
    THEN [st EXCEPT !.hosts_up = 1, !.scan_status = "host_up"]
    ELSE IF Contains(line_lower, "0 hosts up") \/ Contains(line_lower, "host seems down")
    THEN [st EXCEPT !.scan_status = "host_down"]
    ELSE st

\* 1. host status: one if/elif/elif chain per line
HostRule(st, line_lower) ==
    IF Contains(line_lower, "nmap scan report for")
    THEN [st EXCEPT !.hosts_up = 1, !.scan_status = "host_found"]
    ELSE IF Contains(line_lower, "host is up")
            \/ (Contains(line_lower, "up") /\ Contains(line_lower, "host"))
    THEN [st EXCEPT !.hosts_up = 1, !.scan_status = "host_up"]
    ELSE IF Contains(line_lower, "0 hosts up") \/ Contains(line_lower, "host seems down")
    THEN [st EXCEPT !.hosts_up = 0, !.scan_status = "host_down"]
    ELSE st

HostOf(host, line, line_lower) ==
    IF Contains(line_lower, "nmap scan report for")
    THEN strip(replace(line, "Nmap scan report for", ""))
    ELSE host

\* 2. the port-table header
IsPortHeader(line_lower) ==
    Contains(line_lower, "port") /\ Contains(line_lower, "state")
        /\ Contains(line_lower, "service")

LookaheadStop == {"nmap", "port", "service", "state"}

\* one iteration of "for i in range(1, 4)" over the lines after position at
LookaheadStep(info, ls, at, i) ==
    IF at + i <= Len(ls)
    THEN LET next_line == strip(ls[at + i])
         IN  IF next_line # "" /\ ~AnyIn(LookaheadStop, lower(next_line))
             THEN IF info.service = "unknown"
                  THEN [info EXCEPT !.service = next_line]
                  ELSE IF Contains(lower(next_line), "version")
                          \/ Contains(lower(next_line), "product")
                  THEN [info EXCEPT !.version = next_line]
                  ELSE info
             ELSE info
    ELSE info

\* the record of an open port line; version "" stands for an absent key
PortInfo(ls, line) ==
    LET parts == split(line)
        port_protocol == parts[1]
        pp == splitOn(port_protocol, "/")
        info0 == [port |-> pp[1],
                  protocol |-> IF Contains(port_protocol, "/") THEN pp[2] ELSE "tcp",
                  state |-> parts[2],
                  service |-> IF Len(parts) > 2 THEN parts[3] ELSE "unknown",
                  version |-> ""]
        at == index(ls, line)
    IN  LookaheadStep(LookaheadStep(LookaheadStep(info0, ls, at, 1), ls, at, 2), ls, at, 3)

\* 3. port lines, looked at only inside the port section
PortLine(ports, ls, line, inSection) ==
    IF inSection /\ strip(line) # "" /\ ~startswith(line, "Nmap") /\ ~startswith(line, "|")
    THEN LET parts == split(line)
         IN  IF Len(parts) >= 2
                  /\ (Contains(lower(parts[1]), "/tcp") \/ Contains(lower(parts[1]), "/udp"))
                  /\ lower(parts[2]) = "open"
             THEN Append(ports, PortInfo(ls, line))
             ELSE ports
    ELSE ports

\* a port section that a blank line does not end
SectionAfter_NoBlankExit(inSection, line, line_lower) ==
    IF inSection /\ (startswith(line, "Nmap") \/ Contains(line_lower, "read data files"))
    THEN FALSE
    ELSE inSection

\* 4. end of the port section
SectionAfter(inSection, line, line_lower) ==
    IF inSection /\ (startswith(line, "Nmap") \/ Contains(line_lower, "read data files")
                        \/ strip(line) = "")
    THEN FALSE
    ELSE inSection

VulnKeywords == {"vuln", "cve-", "vulnerability", "risk", "exploit"}

\* 5. vulnerability findings
VulnLine(vulns, line, line_lower) ==
    IF AnyIn(VulnKeywords, line_lower) /\ strip(line) # ""
    THEN Append(vulns, strip(line))
    ELSE vulns

\* a fallback applied only while no host rule has fired
Fallback_UnknownOnly(st) ==
    IF st.hosts_up = 0 /\ st.open_ports # <<>> /\ st.scan_status = "unknown"
    THEN [st EXCEPT !.hosts_up = 1, !.scan_status = "implied_host_up"]
    ELSE st

\* 6. fallback: open ports imply a host
Fallback(st) ==
    IF st.hosts_up = 0 /\ st.open_ports # <<>>
    THEN [st EXCEPT !.hosts_up = 1, !.scan_status = "implied_host_up"]
    ELSE st

\* 7. default status from the whole output
DefaultStatus(st, out) ==
    IF st.scan_status = "unknown"
    THEN IF Contains(lower(out), "scan report")
         THEN [st EXCEPT !.scan_status = "completed"]
         ELSE IF Contains(lower(out), "nmap done")
         THEN [st EXCEPT !.scan_status = "completed_no_hosts"]
         ELSE st
    ELSE st

-----------------------------------------------------------------------------
(* _parse_statistics: the state machine *)

\* an entry without the "if not output" early return
ParseBegin_NoShortCircuit ==
    /\ pc = "parse_entry"
    /\ current_host' = "None"
    /\ in_port_section' = FALSE
    /\ stats' = EmptyStats
    /\ lines' = splitOn(output, "\n")
    /\ idx' = 1
    /\ pc' = "parse_loop"
    /\ UNCHANGED <<caller, target, profile, cmd, timeout, duration, proc, output, result,
                   path, clock, base_name, written, fs, saves, displayed, returned, raised>>
    /\ UNCHANGED <<scan_profiles, spawns, summary, env, earlier, output_dir, converted>>

\* stats = {...}; if not output: return; lines = output.split('\n')
ParseBegin ==
    /\ pc = "parse_entry"
    /\ current_host' = "None"
    /\ in_port_section' = FALSE
    /\ IF output = ""
       THEN /\ stats' = [EmptyStats EXCEPT !.scan_status = "no_output"]
            /\ pc' = "parse_done"
            /\ UNCHANGED <<lines, idx>>
       ELSE /\ stats' = EmptyStats
            /\ lines' = splitOn(output, "\n")
            /\ idx' = 1
            /\ pc' = "parse_loop"
    /\ UNCHANGED <<caller, target, profile, cmd, timeout, duration, proc, output, result,
                   path, clock, base_name, written, fs, saves, displayed, returned, raised>>
    /\ UNCHANGED <<scan_profiles, spawns, summary, env, earlier, output_dir, converted>>

\* the line pass without lower()
ParseLine_CaseSensitive ==
    /\ pc = "parse_loop"
    /\ idx <= Len(lines)
    /\ LET line == lines[idx]
           line_lower == line
           hosted == HostRule(stats, line_lower)
       IN  /\ current_host' = HostOf(current_host, line, line_lower)
           /\ IF IsPortHeader(line_lower)
              THEN \* in_port_section = True; continue
                   /\ in_port_section' = TRUE
                   /\ stats' = hosted
              ELSE /\ in_port_section' = SectionAfter(in_port_section, line, line_lower)
                   /\ stats' = [hosted EXCEPT
                        !.open_ports = PortLine(hosted.open_ports, lines, line, in_port_section),
                        !.vulnerabilities = VulnLine(hosted.vulnerabilities, line, line_lower)]
    /\ idx' = idx + 1
    /\ UNCHANGED <<pc, caller, target, profile, cmd, timeout, duration, proc, output, lines,
                   result, path, clock, base_name, written, fs, saves, displayed, returned,
                   raised>>
    /\ UNCHANGED <<scan_profiles, spawns, summary, env, earlier, output_dir, converted>>

\* one iteration of "for line in lines"
ParseLine ==
    /\ pc = "parse_loop"
    /\ idx <= Len(lines)
    /\ LET line == lines[idx]
           line_lower == lower(line)
           hosted == HostRule(stats, line_lower)
       IN  /\ current_host' = HostOf(current_host, line, line_lower)
           /\ IF IsPortHeader(line_lower)
              THEN \* in_port_section = True; continue
                   /\ in_port_section' = TRUE
                   /\ stats' = hosted
              ELSE /\ in_port_section' = SectionAfter(in_port_section, line, line_lower)
                   /\ stats' = [hosted EXCEPT
                        !.open_ports = PortLine(hosted.open_ports, lines, line, in_port_section),
                        !.vulnerabilities = VulnLine(hosted.vulnerabilities, line, line_lower)]
    /\ idx' = idx + 1
    /\ UNCHANGED <<pc, caller, target, profile, cmd, timeout, duration, proc, output, lines,
                   result, path, clock, base_name, written, fs, saves, displayed, returned,
                   raised>>
    /\ UNCHANGED <<scan_profiles, spawns, summary, env, earlier, output_dir, converted>>

\* after the loop: steps 6 and 7, return stats
ParseFinish ==
    /\ pc = "parse_loop"
    /\ idx > Len(lines)
    /\ stats' = DefaultStatus(Fallback(stats), output)
    /\ pc' = "parse_done"
    /\ UNCHANGED <<caller, target, profile, cmd, timeout, duration, proc, output, lines, idx,
                   current_host, in_port_section, result, path, clock, base_name, written, fs,
                   saves, displayed, returned, raised>>
    /\ UNCHANGED <<scan_profiles, spawns, summary, env, earlier, output_dir, converted>>

-----------------------------------------------------------------------------
(* scan(): profile table, command line, result objects *)

SCAN_PROFILES ==
    [discovery     |-> [command |-> "-sn", description |-> "Host discovery only",
                        time |-> "Fast"],
     quick         |-> [command |-> "-sS -T4 -F", description |-> "Quick TCP port scan",
                        time |-> "Medium"],
     comprehensive |-> [command |-> "-sS -sV -sC -O -A",
                        description |-> "Comprehensive scan with OS/version detection",
                        time |-> "Slow"],
     vulnerability |-> [command |-> "-sV --script vuln,safe",
                        description |-> "Vulnerability assessment", time |-> "Very Slow"],
     udp           |-> [command |-> "-sU --top-ports 100",
                        description |-> "Top UDP ports scan", time |-> "Medium"]]

ProfileNames == DOMAIN SCAN_PROFILES

VulnTimeout == 900
DefaultTimeout == 600

\* one timeout for every profile
ScanTimeout_Flat(p) == DefaultTimeout

\* timeout = 900 if profile == "vulnerability" else 600
ScanTimeout(p) == IF p = "vulnerability" THEN VulnTimeout ELSE DefaultTimeout

Digits == "0123456789"
TwoDigits(n) == CharAt(Digits, (n \div 10) + 1) \o CharAt(Digits, (n % 10) + 1)

\* a timestamp without the seconds
strftime_Minutes(c) == "20240101_" \o TwoDigits(c \div 3600) \o TwoDigits((c \div 60) % 60)

\* datetime.now().strftime("%Y%m%d_%H%M%S"), the clock counting seconds of one day
strftime(c) ==
    "20240101_" \o TwoDigits(c \div 3600) \o TwoDigits((c \div 60) % 60) \o TwoDigits(c % 60)

\* datetime.now().isoformat()
isoformat(c) ==
    "2024-01-01T" \o TwoDigits(c \div 3600) \o ":" \o TwoDigits((c \div 60) % 60)
        \o ":" \o TwoDigits(c % 60)

\* the default of the output_dir parameter
OutputDir == "reports"

\* base_name of _save_reports
BaseName(tgt, prof, c) ==
    LET safe_target == replace(replace(tgt, "/", "_"), ".", "_")
    IN  output_dir \o "/" \o safe_target \o "_" \o prof \o "_" \o strftime(c)

Range(seq) == {seq[i] : i \in 1..Len(seq)}

NoProc == [returncode |-> 0, stdout |-> "", stderr |-> ""]
NoResult == [metadata |-> [success |-> FALSE]]

ScanResult(tgt, prof, c, command, p, st) ==
    [metadata |-> [target |-> tgt, profile |-> prof, timestamp |-> isoformat(c),
                   command |-> command, success |-> (p.returncode = 0),
                   return_code |-> p.returncode],
     raw_output |-> p.stdout,
     raw_errors |-> p.stderr,
     statistics |-> st]

PartialResult(tgt, prof, c, command) ==
    [metadata |-> [target |-> tgt, profile |-> prof, timestamp |-> isoformat(c),
                   command |-> command, success |-> FALSE, error |-> "Timeout"],
     statistics |-> [hosts_up |-> 0, open_ports |-> <<>>, scan_status |-> "timeout"]]

\* what a report file holds, as far as the model looks at it
TxtBody(res) ==
    (IF "raw_output" \in DOMAIN res /\ res.raw_output # ""
     THEN res.raw_output
     ELSE "No scan output available\n")
    \o (IF "raw_errors" \in DOMAIN res /\ res.raw_errors # ""
        THEN "\nERRORS/ADVERTENCIAS:\n" \o res.raw_errors
        ELSE "")

FileOf(format, res) ==
    [format |-> format, by |-> "_save_reports", target |-> res.metadata.target,
     profile |-> res.metadata.profile,
     body |-> IF format = "txt" THEN TxtBody(res) ELSE res.statistics.scan_status]

NoEarlier == [files |-> <<>>, target |-> "", profile |-> "", clock |-> 0]

\* json_to_html has not been called
NoConversion == [json_file |-> "", html_file |-> "", returned |-> "none"]

-----------------------------------------------------------------------------
(* _display_results: the console summary; pictographs are left out of the texts *)

UpperOf ==
    [l \in {CharAt(LowerAlpha, i) : i \in 1..Len(LowerAlpha)} |->
        CharAt(UpperAlpha, CHOOSE i \in 1..Len(LowerAlpha) : CharAt(LowerAlpha, i) = l)]

UpperChar(c) == IF c \in DOMAIN UpperOf THEN UpperOf[c] ELSE c

IsLetter(c) == c \in UpperSet \/ c \in DOMAIN UpperOf

\* str(n) for n >= 0
RECURSIVE IntToStr(_)
IntToStr(n) ==
    IF n < 10 THEN CharAt(Digits, n + 1)
    ELSE IntToStr(n \div 10) \o CharAt(Digits, (n % 10) + 1)

\* s.title(): a letter after a non-letter becomes upper case, every other letter lower case
RECURSIVE titleFrom(_, _)
titleFrom(s, afterLetter) ==
    IF s = "" THEN ""
    ELSE LET c == CharAt(s, 1)
         IN  (IF afterLetter THEN LowerChar(c) ELSE UpperChar(c))
                \o titleFrom(From(s, 2), IsLetter(c))

title(s) == titleFrom(s, FALSE)

\* dict.get(key, default)
Get(d, key, default) == IF key \in DOMAIN d THEN d[key] ELSE default

ShownPorts == 5
ShownVulns == 3
ServiceWidth == 30
VulnWidth == 60

\* s[:n]
Prefix(s, n) == SubSeq(s, 1, IF Len(s) < n THEN Len(s) ELSE n)

Ellipsize_KeepWidth(s, width) == IF Len(s) > width THEN Prefix(s, width) \o "..." ELSE s

Ellipsize(s, width) == IF Len(s) > width THEN Prefix(s, width - 3) \o "..." ELSE s

Entry(stmt, text) == [stmt |-> stmt, text |-> text]

\* for port in stats['open_ports'][:5]: print(...)
PortEntries(ports) ==
    [i \in 1..(IF Len(ports) < ShownPorts THEN Len(ports) ELSE ShownPorts) |->
        Entry("port", "  - Port " \o ports[i].port \o "/" \o ports[i].protocol \o ": "
                        \o Ellipsize(ports[i].service, ServiceWidth))]

\* for vuln in stats['vulnerabilities'][:3]: print(...)
VulnEntries(vulns) ==
    [i \in 1..(IF Len(vulns) < ShownVulns THEN Len(vulns) ELSE ShownVulns) |->
        Entry("vuln", "  - " \o Ellipsize(vulns[i], VulnWidth))]

MoreEntry(stmt, n, shown) ==
    IF n > shown THEN <<Entry(stmt, "  ... and " \o IntToStr(n - shown) \o " more")>> ELSE <<>>

Rule60 == "============================================================"

\* everything _display_results prints, in order
DisplaySummary(res) ==
    LET st == Get(res, "statistics", <<>>)
        ports == Get(st, "open_ports", <<>>)
        vulns == Get(st, "vulnerabilities", <<>>)
    IN  <<Entry("banner", "\n" \o Rule60), Entry("banner", "SCAN RESULTS"),
          Entry("banner", Rule60)>>
        \o (IF Get(st, "hosts_up", 0) > 0
            THEN <<Entry("hosts", "Hosts Found: " \o IntToStr(st.hosts_up))>>
                 \o (IF ports # <<>>
                     THEN <<Entry("ports_header",
                                  "\nOpen Ports (" \o IntToStr(Len(ports)) \o "):")>>
                          \o PortEntries(ports)
                          \o MoreEntry("more_ports", Len(ports), ShownPorts)
                     ELSE <<Entry("no_ports", "No open ports found")>>)
            ELSE <<Entry("no_hosts", "No hosts found")>>)
        \o (IF vulns # <<>>
            THEN <<Entry("vulns_header",
                         "\nPotential Vulnerabilities Found: " \o IntToStr(Len(vulns)))>>
                 \o VulnEntries(vulns)
                 \o MoreEntry("more_vulns", Len(vulns), ShownVulns)
            ELSE <<>>)
        \o <<Entry("status",
                   "\nScan Status: "
                       \o title(replace(Get(st, "scan_status", "unknown"), "_", " "))),
             Entry("banner", Rule60)>>

-----------------------------------------------------------------------------
(* inputs *)

MaxLines == 3
MaxPortLines == 2
MaxClock == 1

ReportLine == "Nmap scan report for 10.0.0.5"
HeaderLine == "PORT STATE SERVICE"

LineVocab ==
    {ReportLine,
     "Host is up (0.01s latency).",
     "Nmap done: 1 IP address (0 hosts up) scanned",
     "Note: Host seems down.",
     HeaderLine,
     "80/tcp open http",
     "53/udp open unknown",
     "22/tcp closed ssh",
     "443/tcp open",
     "",
     "  VULNERABLE: exploit known  ",
     "PORT STATE SERVICE CVE-2014-0160"}

PortVocab == {"80/tcp open http", "53/udp open unknown", "443/tcp open https"}

\* host lines in other spellings than nmap's own, and lines no host rule matches
HostVocab ==
    {"scan report for 10.0.0.9",
     "NMAP SCAN REPORT FOR 10.0.0.7",
     "Host is up (0.01s latency).",
     "Starting Nmap 7.94",
     "Nmap done: 0 IP addresses scanned",
     "Nmap scan report for host-up.lan (10.0.0.8)",
     "Note: Host seems down."}

\* port tables with the closing line of nmap and a protocol column nmap does not print
SectionVocab ==
    {HeaderLine,
     "80/tcp open http",
     "Read data files from: /usr/share/nmap",
     "80/tcp6 open http"}

SeqsUpTo(S, n) == UNION {[1..k -> S] : k \in 1..n}

\* outputs handed to _parse_statistics when it is exercised on its own
ParseInputs ==
    {join(ls) : ls \in SeqsUpTo(LineVocab, MaxLines)}
        \cup {join(<<ReportLine, HeaderLine>> \o ps) : ps \in SeqsUpTo(PortVocab, MaxPortLines)}
        \cup {join(ls) : ls \in SeqsUpTo(HostVocab, MaxLines)}
        \cup {join(ls) : ls \in SeqsUpTo(SectionVocab, MaxLines)}

\* what the scanning subprocess may print
ScanOutputs ==
    {"",
     join(<<ReportLine, "Host is up (0.01s latency).", HeaderLine, "80/tcp open http">>),
     "Note: Host seems down."}

ErrOutputs == {"", "WARNING: No targets were specified"}
ReturnCodes == {0, 1}
Durations == {1, 601, 901}
Targets == {"10.0.0.5", "192.168.1.0/24"}
ProfileArgs == ProfileNames \cup {"stealth"}

-----------------------------------------------------------------------------
(* scan() *)

\* an exception raised at the current position of scan(): inside the try block it is
\* caught by "except Exception" (print, return {}); inside the TimeoutExpired handler
\* no except clause covers it and it leaves scan()
Throw(exc) ==
    IF path = "timeout"
    THEN /\ raised' = exc
         /\ pc' = "raised"
         /\ UNCHANGED returned
    ELSE /\ returned' = "empty"
         /\ pc' = "done"
         /\ UNCHANGED raised

\* profile lookup and command line, up to the try
Scan_CatchInvalid(p) ==
    /\ pc = "idle"
    /\ profile' = p
    /\ IF p \notin DOMAIN scan_profiles
       THEN /\ returned' = "empty"
            /\ pc' = "done"
            /\ UNCHANGED <<cmd, raised>>
       ELSE /\ cmd' = "nmap " \o scan_profiles[p].command \o " " \o target
            /\ pc' = "run"
            /\ UNCHANGED <<raised, returned>>
    /\ UNCHANGED <<caller, target, timeout, duration, proc, output, lines, idx, current_host,
                   in_port_section, stats, result, path, clock, base_name, written, fs,
                   saves, displayed>>
    /\ UNCHANGED <<scan_profiles, spawns, summary, env, earlier, output_dir, converted>>

Scan_AppendTarget(p) ==
    /\ pc = "idle"
    /\ profile' = p
    /\ IF p \notin DOMAIN scan_profiles
       THEN /\ raised' = "ValueError"
            /\ pc' = "raised"
            /\ UNCHANGED <<cmd, scan_profiles>>
       ELSE /\ scan_profiles' = [scan_profiles EXCEPT ![p].command = @ \o " " \o target]
            /\ cmd' = "nmap " \o scan_profiles'[p].command
            /\ pc' = "run"
            /\ UNCHANGED raised
    /\ UNCHANGED <<caller, target, timeout, duration, proc, output, lines, idx, current_host,
                   in_port_section, stats, result, path, clock, base_name, written, fs,
                   saves, displayed, returned>>
    /\ UNCHANGED <<spawns, summary, env, earlier, output_dir, converted>>

Scan(p) ==
    /\ pc = "idle"
    /\ profile' = p
    /\ IF p \notin DOMAIN scan_profiles
       THEN /\ raised' = "ValueError"
            /\ pc' = "raised"
            /\ UNCHANGED cmd
       ELSE /\ cmd' = "nmap " \o scan_profiles[p].command \o " " \o target
            /\ pc' = "run"
            /\ UNCHANGED raised
    /\ UNCHANGED <<caller, target, timeout, duration, proc, output, lines, idx, current_host,
                   in_port_section, stats, result, path, clock, base_name, written, fs,
                   saves, displayed, returned>>
    /\ UNCHANGED <<scan_profiles, spawns, summary, env, earlier, output_dir, converted>>

\* subprocess.run(cmd, shell=True, capture_output=True, text=True, timeout=timeout)
RunSubprocess ==
    /\ pc = "run"
    /\ timeout' = ScanTimeout(profile)
    /\ spawns' = spawns + 1
    /\ \/ \* the call fails (OSError, UnicodeDecodeError, ...)
          /\ Throw("OSError")
          /\ UNCHANGED <<caller, duration, proc, output, clock, path>>
       \/ \E d \in Durations :
            /\ duration' = d
            /\ IF d > timeout'
               THEN \* TimeoutExpired
                    /\ clock' = clock + timeout'
                    /\ pc' = "timeout_handler"
                    /\ path' = "timeout"
                    /\ UNCHANGED <<caller, proc, output>>
               ELSE \E rc \in ReturnCodes, out \in ScanOutputs, err \in ErrOutputs :
                    /\ clock' = clock + d
                    /\ proc' = [returncode |-> rc, stdout |-> out, stderr |-> err]
                    /\ output' = out
                    /\ caller' = "scan"
                    /\ path' = "normal"
                    /\ pc' = "parse_entry"
            /\ UNCHANGED <<returned, raised>>
    /\ UNCHANGED <<target, profile, cmd, lines, idx, current_host, in_port_section, stats,
                   result, base_name, written, fs, saves, displayed>>
    /\ UNCHANGED <<scan_profiles, summary, env, earlier, output_dir, converted>>

\* scan_result = {...} once _parse_statistics(stdout) has returned
BuildResult ==
    /\ pc = "parse_done"
    /\ caller = "scan"
    /\ result' = ScanResult(target, profile, clock, cmd, proc, stats)
    /\ pc' = "save_txt"
    /\ UNCHANGED <<caller, target, profile, cmd, timeout, duration, proc, output, lines, idx,
                   current_host, in_port_section, stats, path, clock, base_name, written, fs,
                   saves, displayed, returned, raised>>
    /\ UNCHANGED <<scan_profiles, spawns, summary, env, earlier, output_dir, converted>>

\* a timeout handler that returns the partial result without saving it
ExceptTimeout_NoSave ==
    /\ pc = "timeout_handler"
    /\ result' = PartialResult(target, profile, clock, cmd)
    /\ pc' = "saved"
    /\ UNCHANGED <<caller, target, profile, cmd, timeout, duration, proc, output, lines, idx,
                   current_host, in_port_section, stats, path, clock, base_name, written, fs,
                   saves, displayed, returned, raised>>
    /\ UNCHANGED <<scan_profiles, spawns, summary, env, earlier, output_dir, converted>>

\* except subprocess.TimeoutExpired: partial_result = {...}
ExceptTimeout ==
    /\ pc = "timeout_handler"
    /\ result' = PartialResult(target, profile, clock, cmd)
    /\ pc' = "save_txt"
    /\ UNCHANGED <<caller, target, profile, cmd, timeout, duration, proc, output, lines, idx,
                   current_host, in_port_section, stats, path, clock, base_name, written, fs,
                   saves, displayed, returned, raised>>
    /\ UNCHANGED <<scan_profiles, spawns, summary, env, earlier, output_dir, converted>>

\* one open(name, 'w') + write of _save_reports: it succeeds, or open raises OSError
\* (no file), or a write raises after open has created or truncated the file
WriteReport(at, base, format, suffix, next) ==
    /\ pc = at
    /\ \/ /\ fs' = ((base \o suffix) :> FileOf(format, result)) @@ fs
          /\ written' = Append(written, base \o suffix)
          /\ pc' = next
          /\ UNCHANGED <<returned, raised>>
       \/ /\ Throw("OSError")
          /\ UNCHANGED <<fs, written>>
       \/ /\ Throw("OSError")
          /\ fs' = ((base \o suffix) :> [FileOf(format, result) EXCEPT !.body = ""]) @@ fs
          /\ written' = Append(written, base \o suffix)

SaveTxt ==
    /\ base_name' = BaseName(target, profile, clock)
    /\ WriteReport("save_txt", base_name', "txt", ".txt", "save_json")
    /\ UNCHANGED <<caller, target, profile, cmd, timeout, duration, proc, output, lines, idx,
                   current_host, in_port_section, stats, result, path, clock, saves,
                   displayed>>
    /\ UNCHANGED <<scan_profiles, spawns, summary, env, earlier, output_dir, converted>>

SaveJson ==
    /\ WriteReport("save_json", base_name, "json", ".json", "save_md")
    /\ UNCHANGED <<caller, target, profile, cmd, timeout, duration, proc, output, lines, idx,
                   current_host, in_port_section, stats, result, path, clock, base_name,
                   saves, displayed>>
    /\ UNCHANGED <<scan_profiles, spawns, summary, env, earlier, output_dir, converted>>

SaveMarkdown ==
    /\ WriteReport("save_md", base_name, "md", ".md", "save_html")
    /\ UNCHANGED <<caller, target, profile, cmd, timeout, duration, proc, output, lines, idx,
                   current_host, in_port_section, stats, result, path, clock, base_name,
                   saves, displayed>>
    /\ UNCHANGED <<scan_profiles, spawns, summary, env, earlier, output_dir, converted>>

\* a report writer that leaves the HTML page out for a result without raw output
SaveHtml_SkipPartial ==
    /\ IF "raw_output" \in DOMAIN result
       THEN WriteReport("save_html", base_name, "html", "_report.html", "saved")
       ELSE /\ pc = "save_html"
            /\ pc' = "saved"
            /\ UNCHANGED <<fs, written, returned, raised>>
    /\ saves' = IF pc' = "saved" THEN saves + 1 ELSE saves
    /\ UNCHANGED <<caller, target, profile, cmd, timeout, duration, proc, output, lines, idx,
                   current_host, in_port_section, stats, result, path, clock, base_name,
                   displayed>>
    /\ UNCHANGED <<scan_profiles, spawns, summary, env, earlier, output_dir, converted>>

\* the last write; _save_reports returns after it
SaveHtml ==
    /\ WriteReport("save_html", base_name, "html", "_report.html", "saved")
    /\ saves' = IF pc' = "saved" THEN saves + 1 ELSE saves
    /\ UNCHANGED <<caller, target, profile, cmd, timeout, duration, proc, output, lines, idx,
                   current_host, in_port_section, stats, result, path, clock, base_name,
                   displayed>>
    /\ UNCHANGED <<scan_profiles, spawns, summary, env, earlier, output_dir, converted>>

\* self._display_results(scan_result); return scan_result
DisplayResults ==
    /\ pc = "saved"
    /\ path = "normal"
    /\ \/ /\ summary' = DisplaySummary(result)
          /\ displayed' = TRUE
          /\ returned' = "full"
          /\ pc' = "done"
          /\ UNCHANGED raised
       \/ \* one of the prints raises: what was printed before it stays on the console
          \E k \in 0..(Len(DisplaySummary(result)) - 1) :
            /\ summary' = SubSeq(DisplaySummary(result), 1, k)
            /\ Throw("OSError")
            /\ UNCHANGED displayed
    /\ UNCHANGED <<caller, target, profile, cmd, timeout, duration, proc, output, lines, idx,
                   current_host, in_port_section, stats, result, path, clock, base_name,
                   written, fs, saves>>
    /\ UNCHANGED <<scan_profiles, spawns, env, earlier, output_dir, converted>>

\* return partial_result
ReturnPartial ==
    /\ pc = "saved"
    /\ path = "timeout"
    /\ returned' = "partial"
    /\ pc' = "done"
    /\ UNCHANGED <<caller, target, profile, cmd, timeout, duration, proc, output, lines, idx,
                   current_host, in_port_section, stats, result, path, clock, base_name,
                   written, fs, saves, displayed, raised>>
    /\ UNCHANGED <<scan_profiles, spawns, summary, env, earlier, output_dir, converted>>

-----------------------------------------------------------------------------
(* specifications *)

Blank ==
    /\ profile = ""
    /\ cmd = ""
    /\ timeout = 0
    /\ duration = 0
    /\ proc = NoProc
    /\ lines = <<>>
    /\ idx = 0
    /\ current_host = "None"
    /\ in_port_section = FALSE
    /\ stats = EmptyStats
    /\ result = NoResult
    /\ path = "none"
    /\ base_name = ""
    /\ written = <<>>
    /\ fs = [n \in {} |-> n]
    /\ saves = 0
    /\ displayed = FALSE
    /\ returned = "none"
    /\ raised = "none"
    /\ scan_profiles = SCAN_PROFILES
    /\ spawns = 0
    /\ summary = <<>>
    /\ earlier = NoEarlier
    /\ converted = NoConversion

\* a constructed scanner, before scan() is called
Init ==
    /\ pc = "idle"
    /\ output_dir = OutputDir
    /\ caller = "scan"
    /\ env = [outcome |-> "ok", printed |-> "Nmap version 7.94 ( https://nmap.org )",
              exit |-> "none"]
    /\ target \in Targets
    /\ clock \in 0..MaxClock
    /\ output = ""
    /\ Blank

Next ==
    \/ \E p \in ProfileArgs : Scan(p)
    \/ RunSubprocess
    \/ ParseBegin
    \/ ParseLine
    \/ ParseFinish
    \/ BuildResult
    \/ ExceptTimeout
    \/ SaveTxt
    \/ SaveJson
    \/ SaveMarkdown
    \/ SaveHtml
    \/ DisplayResults
    \/ ReturnPartial

Spec == Init /\ [][Next]_vars

-----------------------------------------------------------------------------
(* __init__ and _validate_environment, followed by scan(): MainSpec *)

NoEnv == [outcome |-> "none", printed |-> "", exit |-> "none"]

\* stdout of "nmap --version"
VersionOutputs == {"Nmap version 7.94 ( https://nmap.org )\nPlatform: x86_64-pc-linux-gnu", ""}

NotFound == "Nmap not found. Install with: sudo apt install nmap"

EnvFrame ==
    UNCHANGED <<caller, target, profile, cmd, timeout, duration, proc, output, lines, idx,
                current_host, in_port_section, stats, result, path, clock, base_name,
                written, fs, saves, displayed, returned, raised, scan_profiles, spawns,
                summary, earlier, output_dir, converted>>

ValidateEnvironment_MissingNotFatal ==
    /\ pc = "construct"
    /\ \/ \E stdout \in VersionOutputs :
            /\ env' = [outcome |-> "ok",
                       printed |-> IF stdout # "" THEN splitOn(stdout, "\n")[1] ELSE "Nmap",
                       exit |-> "none"]
            /\ pc' = "idle"
       \/ /\ env' = [outcome |-> "nonzero", printed |-> NotFound, exit |-> "SystemExit"]
          /\ pc' = "exited"
       \/ /\ env' = [outcome |-> "timeout", printed |-> "Nmap version check timed out",
                     exit |-> "none"]
          /\ pc' = "idle"
       \/ /\ env' = [outcome |-> "missing", printed |-> NotFound, exit |-> "none"]
          /\ pc' = "idle"
       \/ /\ env' = [outcome |-> "error", printed |-> "", exit |-> "OSError"]
          /\ pc' = "exited"
    /\ EnvFrame

\* PortfolioNetworkScanner(target): os.makedirs, then the version check
ValidateEnvironment ==
    /\ pc = "construct"
    /\ \/ \* the check completes with return code 0: the first line of its output is printed
          \E stdout \in VersionOutputs :
            /\ env' = [outcome |-> "ok",
                       printed |-> IF stdout # "" THEN splitOn(stdout, "\n")[1] ELSE "Nmap",
                       exit |-> "none"]
            /\ pc' = "idle"
       \/ \* return code other than 0
          /\ env' = [outcome |-> "nonzero", printed |-> NotFound, exit |-> "SystemExit"]
          /\ pc' = "exited"
       \/ \* subprocess.TimeoutExpired after 10 seconds
          /\ env' = [outcome |-> "timeout", printed |-> "Nmap version check timed out",
                     exit |-> "none"]
          /\ pc' = "idle"
       \/ \* FileNotFoundError: there is no nmap binary
          /\ env' = [outcome |-> "missing", printed |-> NotFound, exit |-> "SystemExit"]
          /\ pc' = "exited"
       \/ \* any other exception (os.makedirs failing, PermissionError) is not handled
          /\ env' = [outcome |-> "error", printed |-> "", exit |-> "OSError"]
          /\ pc' = "exited"
    /\ EnvFrame

\* before the scanner object is constructed
MainInit ==
    /\ pc = "construct"
    /\ output_dir = OutputDir
    /\ caller = "scan"
    /\ env = NoEnv
    /\ target \in Targets
    /\ clock \in 0..MaxClock
    /\ output = ""
    /\ Blank

MainNext == ValidateEnvironment \/ Next

MainSpec == MainInit /\ [][MainNext]_vars

-----------------------------------------------------------------------------
(* a scan whose subprocess has printed a long port table: DisplaySpec *)

MaxDisplayPorts == 6
MaxDisplayVulns == 4

RECURSIVE Repeat(_, _)
Repeat(c, n) ==
    IF n <= 0 THEN ""
    ELSE IF n = 1 THEN c
    ELSE Repeat(c, n \div 2) \o Repeat(c, n - (n \div 2))

\* service names of 4, 30 and 31 characters
ServiceVocab == {"http", "svc" \o Repeat("x", 27), "svc" \o Repeat("x", 28)}

\* script output lines of 20, 60 and 61 characters
VulnVocab ==
    {"CVE-2021-44228 log4j", "CVE-2021-44228 " \o Repeat("x", 45),
     "CVE-2021-44228 " \o Repeat("x", 46)}

DisplayPortLines(k, svc) == [i \in 1..k |-> IntToStr(20 + i) \o "/tcp open " \o svc]

DisplayOutputs ==
    {join((IF r THEN <<ReportLine>> ELSE <<>>) \o <<HeaderLine>>
            \o DisplayPortLines(k, svc) \o [i \in 1..j |-> v]) :
        r \in BOOLEAN, k \in 0..MaxDisplayPorts, svc \in ServiceVocab,
        j \in 0..MaxDisplayVulns, v \in VulnVocab}

\* scan("comprehensive"): the subprocess has just completed with an output of DisplayOutputs
DisplayInit ==
    /\ pc = "parse_entry"
    /\ output_dir = OutputDir
    /\ caller = "scan"
    /\ env = [outcome |-> "ok", printed |-> "Nmap version 7.94 ( https://nmap.org )",
              exit |-> "none"]
    /\ target = "10.0.0.5"
    /\ profile = "comprehensive"
    /\ cmd = "nmap " \o SCAN_PROFILES["comprehensive"].command \o " 10.0.0.5"
    /\ timeout = ScanTimeout("comprehensive")
    /\ duration = 1
    /\ clock = 1
    /\ output \in DisplayOutputs
    /\ proc = [returncode |-> 0, stdout |-> output, stderr |-> ""]
    /\ path = "normal"
    /\ spawns = 1
    /\ lines = <<>>
    /\ idx = 0
    /\ current_host = "None"
    /\ in_port_section = FALSE
    /\ stats = EmptyStats
    /\ result = NoResult
    /\ base_name = ""
    /\ written = <<>>
    /\ fs = [n \in {} |-> n]
    /\ saves = 0
    /\ displayed = FALSE
    /\ returned = "none"
    /\ raised = "none"
    /\ scan_profiles = SCAN_PROFILES
    /\ summary = <<>>
    /\ earlier = NoEarlier
    /\ converted = NoConversion

DisplayNext ==
    \/ ParseBegin
    \/ ParseLine
    \/ ParseFinish
    \/ BuildResult
    \/ SaveTxt
    \/ SaveJson
    \/ SaveMarkdown
    \/ SaveHtml
    \/ DisplayResults

DisplaySpec == DisplayInit /\ [][DisplayNext]_vars

-----------------------------------------------------------------------------
(* two _save_reports invocations into the same output directory: PairSpec *)

\* the first two become the same safe_target
PairTargets == {"10.0.0.5", "10.0.0/5", "10.0.0.6"}

\* a scan of tgt with profile prof has timed out and is about to save its placeholder
AtSave(tgt, prof, c) ==
    /\ pc = "save_txt"
    /\ caller = "scan"
    /\ target = tgt
    /\ profile = prof
    /\ cmd = "nmap " \o SCAN_PROFILES[prof].command \o " " \o tgt
    /\ timeout = ScanTimeout(prof)
    /\ duration = ScanTimeout(prof) + 1
    /\ clock = c
    /\ path = "timeout"
    /\ result = PartialResult(tgt, prof, c, cmd)

PairInit ==
    /\ \E tgt \in PairTargets, prof \in ProfileNames, c \in 0..MaxClock : AtSave(tgt, prof, c)
    /\ output_dir = OutputDir
    /\ env = [outcome |-> "ok", printed |-> "Nmap version 7.94 ( https://nmap.org )",
              exit |-> "none"]
    /\ output = ""
    /\ proc = NoProc
    /\ lines = <<>>
    /\ idx = 0
    /\ current_host = "None"
    /\ in_port_section = FALSE
    /\ stats = EmptyStats
    /\ base_name = ""
    /\ written = <<>>
    /\ fs = [n \in {} |-> n]
    /\ saves = 0
    /\ displayed = FALSE
    /\ returned = "none"
    /\ raised = "none"
    /\ scan_profiles = SCAN_PROFILES
    /\ spawns = 1
    /\ summary = <<>>
    /\ earlier = NoEarlier
    /\ converted = NoConversion

\* another scan, of any target and profile, reaches _save_reports in the same second or
\* later; the files of the first invocation stay in the directory
NextInvocation ==
    /\ pc = "saved"
    /\ saves = 1
    /\ earlier' = [files |-> written, target |-> target, profile |-> profile, clock |-> clock]
    /\ \E tgt \in PairTargets, prof \in ProfileNames, c \in clock..(MaxClock + 1) :
          /\ target' = tgt
          /\ profile' = prof
          /\ clock' = c
          /\ cmd' = "nmap " \o scan_profiles[prof].command \o " " \o tgt
          /\ timeout' = ScanTimeout(prof)
          /\ duration' = ScanTimeout(prof) + 1
          /\ result' = PartialResult(tgt, prof, c, cmd')
    /\ written' = <<>>
    /\ pc' = "save_txt"
    /\ spawns' = spawns + 1
    /\ UNCHANGED <<caller, proc, output, lines, idx, current_host, in_port_section, stats,
                   path, base_name, fs, saves, displayed, returned, raised, scan_profiles,
                   summary, env, output_dir, converted>>

PairNext ==
    \/ SaveTxt
    \/ SaveJson
    \/ SaveMarkdown
    \/ SaveHtml
    \/ NextInvocation

PairSpec == PairInit /\ [][PairNext]_vars

-----------------------------------------------------------------------------
(* utils/json_to_html.py run on the JSON report of a scan: ConvertSpec *)

\* directories a scanner may be given; the second has ".json" inside its name
OutputDirs == {OutputDir, "scans.json.d"}

\* os.path.dirname(path)
DirOf(file) ==
    LET parts == splitOn(file, "/")
    IN  IF Len(parts) = 1 THEN ""
        ELSE SubSeq(file, 1, Len(file) - Len(parts[Len(parts)]) - 1)

endswith(s, suffix) ==
    Len(s) >= Len(suffix) /\ SubSeq(s, Len(s) - Len(suffix) + 1, Len(s)) = suffix

\* the page json_to_html builds from the loaded data
ConverterPage(data) ==
    [format |-> "html", by |-> "json_to_html",
     target |-> Get(data, "target", "Unknown"),
     profile |-> Get(data, "scan_type", "Unknown"),
     body |-> "Network Scan Report - " \o Get(data, "target", "Unknown")]

\* json_to_html(json_file) on a JSON report the finished scan has left in the directory
JsonToHtml ==
    /\ pc \in {"done", "raised"}
    /\ converted.returned = "none"
    /\ \E json_file \in {f \in DOMAIN fs : endswith(f, ".json")} :
          \/ \* open or json.load raises: always on a file cut short, possibly on any file
             /\ converted' = [json_file |-> json_file, html_file |-> "", returned |-> "None"]
             /\ UNCHANGED fs
          \/ /\ fs[json_file].body # ""
             /\ LET data == result
                    html_file == replace(json_file, ".json", "_report.html")
                IN  \/ \* open(html_file, 'w') raises: always when the directory does not
                       \* exist, possibly otherwise
                       /\ converted' = [json_file |-> json_file, html_file |-> html_file,
                                        returned |-> "None"]
                       /\ UNCHANGED fs
                    \/ \* the write raises after the file has been opened and cut
                       /\ DirOf(html_file) = output_dir
                       /\ fs' = (html_file :> [ConverterPage(data) EXCEPT !.body = ""]) @@ fs
                       /\ converted' = [json_file |-> json_file, html_file |-> html_file,
                                        returned |-> "None"]
                    \/ /\ DirOf(html_file) = output_dir
                       /\ fs' = (html_file :> ConverterPage(data)) @@ fs
                       /\ converted' = [json_file |-> json_file, html_file |-> html_file,
                                        returned |-> html_file]
    /\ UNCHANGED <<pc, caller, target, profile, cmd, timeout, duration, proc, output, lines,
                   idx, current_host, in_port_section, stats, result, path, clock, base_name,
                   written, saves, displayed, returned, raised, scan_profiles, spawns,
                   summary, env, earlier, output_dir>>

\* a scanner constructed on one of OutputDirs, before scan() is called
ConvertInit ==
    /\ pc = "idle"
    /\ output_dir \in OutputDirs
    /\ caller = "scan"
    /\ env = [outcome |-> "ok", printed |-> "Nmap version 7.94 ( https://nmap.org )",
              exit |-> "none"]
    /\ target \in Targets
    /\ clock \in 0..MaxClock
    /\ output = ""
    /\ Blank

ConvertNext == Next \/ JsonToHtml

ConvertSpec == ConvertInit /\ [][ConvertNext]_vars

\* _parse_statistics called on its own with an output of ParseInputs
ParseInit ==
    /\ pc = "parse_entry"
    /\ output_dir = OutputDir
    /\ caller = "direct"
    /\ env = [outcome |-> "ok", printed |-> "Nmap version 7.94 ( https://nmap.org )",
              exit |-> "none"]
    /\ target = "10.0.0.5"
    /\ clock = 0
    /\ output \in ParseInputs
    /\ Blank

ParseNext == ParseBegin \/ ParseLine \/ ParseFinish

ParseSpec == ParseInit /\ [][ParseNext]_vars

-----------------------------------------------------------------------------
(* properties of _parse_statistics, checked under ParseSpec *)

Digit(c) == Len(c) = 1 /\ Contains(Digits, c)

\* a line of the form "<n>/<tcp|udp> open <service>"
IsOpenPortForm(line) ==
    LET parts == split(line)
    IN  /\ Len(parts) = 3
        /\ line = parts[1] \o " " \o parts[2] \o " " \o parts[3]
        /\ parts[2] = "open"
        /\ LET pp == splitOn(parts[1], "/")
           IN  /\ Len(pp) = 2
               /\ pp[2] \in {"tcp", "udp"}
               /\ pp[1] # ""
               /\ \A i \in 1..Len(pp[1]) : Digit(CharAt(pp[1], i))

\* a line whose first token names a port: "<n>/tcp ..." or "<n>/udp ..."
IsPortLine(line) ==
    LET parts == split(line)
    IN  Len(parts) >= 1 /\ (Contains(lower(parts[1]), "/tcp") \/ Contains(lower(parts[1]), "/udp"))

InputLines == splitOn(output, "\n")

\* C1: a non-empty output without an "Nmap scan report for" line, a "host is up" line
\* or a port line, but with a line containing "0 hosts up", yields hosts_up = 0 and
\* scan_status = "host_down".
C1_ZeroHostsUpIsHostDown ==
    (/\ pc = "parse_done"
     /\ output # ""
     /\ \A i \in 1..Len(InputLines) :
            /\ ~Contains(lower(InputLines[i]), "nmap scan report for")
            /\ ~Contains(lower(InputLines[i]), "host is up")
            /\ ~IsPortLine(InputLines[i])
     /\ \E i \in 1..Len(InputLines) : Contains(InputLines[i], "0 hosts up"))
    => (stats.hosts_up = 0 /\ stats.scan_status = "host_down")

\* C2: every line of the output that contains "CVE-" is an element of
\* statistics.vulnerabilities, unchanged, wherever it stands.
C2_CveLinesKeptVerbatim ==
    pc = "parse_done"
    => \A i \in 1..Len(InputLines) :
          Contains(InputLines[i], "CVE-")
          => \E j \in 1..Len(stats.vulnerabilities) : stats.vulnerabilities[j] = InputLines[i]

\* C3: an output made of "Nmap scan report for <host>", a port-table header and k >= 1
\* lines "<n>/<tcp|udp> open <service>" yields hosts_up = 1, scan_status = "host_found"
\* and exactly k records, the i-th being {port, protocol, state: open, service} of the
\* i-th port line.
C3_ReportHeaderPortsGiveRecords ==
    (/\ pc = "parse_done"
     /\ Len(InputLines) >= 3
     /\ startswith(InputLines[1], "Nmap scan report for ")
     /\ IsPortHeader(lower(InputLines[2]))
     /\ \A i \in 3..Len(InputLines) : IsOpenPortForm(InputLines[i]))
    => /\ stats.hosts_up = 1
       /\ stats.scan_status = "host_found"
       /\ Len(stats.open_ports) = Len(InputLines) - 2
       /\ \A i \in 1..(Len(InputLines) - 2) :
            LET parts == split(InputLines[i + 2])
            IN  stats.open_ports[i] =
                    [port |-> splitOn(parts[1], "/")[1],
                     protocol |-> splitOn(parts[1], "/")[2],
                     state |-> "open",
                     service |-> parts[3],
                     version |-> ""]

\* C4: empty output gives scan_status = "no_output", hosts_up = 0 and empty open_ports,
\* services and vulnerabilities, and no line is examined (the loop is never entered).
C4_EmptyOutputShortCircuits ==
    (pc = "parse_done" /\ output = "")
    => /\ stats = [hosts_up |-> 0, open_ports |-> <<>>, services |-> <<>>,
                   scan_status |-> "no_output", vulnerabilities |-> <<>>]
       /\ lines = <<>>
       /\ idx = 0

C4_Witness == pc = "parse_done" /\ output = "" /\ stats.scan_status = "no_output"

\* C5: when the line pass ends with hosts_up = 0 and open ports recorded, the returned
\* statistics have hosts_up = 1 and scan_status = "implied_host_up"; so no returned
\* statistics pairs a non-empty open_ports with hosts_up = 0.
C5_FallbackImpliesHostUp ==
    /\ [][(/\ pc = "parse_loop"
           /\ idx > Len(lines)
           /\ stats.hosts_up = 0
           /\ stats.open_ports # <<>>)
          => (/\ pc' = "parse_done"
              /\ stats'.hosts_up = 1
              /\ stats'.scan_status = "implied_host_up"
              /\ stats'.open_ports = stats.open_ports)]_vars
    /\ [](pc = "parse_done" => ~(stats.open_ports # <<>> /\ stats.hosts_up = 0))

\* the fallback has fired although the last host rule that fired said "host_down"
C5_Witness ==
    /\ pc = "parse_done"
    /\ stats.scan_status = "implied_host_up"
    /\ stats.hosts_up = 1
    /\ Contains(lower(InputLines[Len(InputLines)]), "host seems down")

-----------------------------------------------------------------------------
(* properties of scan() and _save_reports, checked under Spec *)

\* C6: a _save_reports invocation that completes has written exactly the four files
\* <base>.txt, <base>.json, <base>.md, <base>_report.html of one base name, for a full
\* result and for the timeout placeholder alike.
C6_SaveWritesFourFiles ==
    saves > 0
    => /\ saves = 1
       /\ written = <<base_name \o ".txt", base_name \o ".json", base_name \o ".md",
                      base_name \o "_report.html">>
       /\ Cardinality(Range(written)) = 4
       /\ DOMAIN fs = Range(written)
       /\ \A f \in DOMAIN fs : fs[f].by = "_save_reports" /\ fs[f].body # ""

\* _save_reports has completed for the timeout placeholder
C6_Witness ==
    /\ saves = 1
    /\ path = "timeout"
    /\ DOMAIN result = {"metadata", "statistics"}
    /\ "return_code" \notin DOMAIN result.metadata
    /\ Cardinality(DOMAIN fs) = 4

\* C7: the subprocess runs under a timeout of 900 for "vulnerability" and 600 for the
\* other four profiles: it completes only within that time and times out beyond it.
C7_TimeoutByProfile ==
    (profile \in ProfileNames /\ pc \notin {"idle", "run"})
    => /\ profile = "vulnerability" => timeout = 900
       /\ profile \in {"discovery", "quick", "comprehensive", "udp"} => timeout = 600
       /\ path = "normal" => duration <= timeout
       /\ path = "timeout" => duration > timeout

\* a vulnerability scan that took longer than 600 and completed
C7_Witness ==
    /\ profile = "vulnerability"
    /\ path = "normal"
    /\ duration > 600
    /\ returned = "full"

\* C8: a scan() that returns after the subprocess timed out returns the partial result
\* (success = false, hosts_up = 0, no open ports, scan_status = "timeout"), and the four
\* report files of that result are on disk by then.
C8_TimeoutReturnsPartialAfterSaving ==
    (pc = "done" /\ path = "timeout")
    => /\ returned = "partial"
       /\ result.metadata.success = FALSE
       /\ result.statistics.hosts_up = 0
       /\ result.statistics.open_ports = <<>>
       /\ result.statistics.scan_status = "timeout"
       /\ Len(written) = 4
       /\ \A f \in {base_name \o ".txt", base_name \o ".json", base_name \o ".md",
                    base_name \o "_report.html"} :
            /\ f \in DOMAIN fs
            /\ fs[f].target = target
            /\ fs[f].profile = profile
            /\ fs[f].body \in {"timeout", "No scan output available\n"}

C8_Witness == pc = "done" /\ path = "timeout" /\ returned = "partial" /\ duration > timeout

\* C9: for a valid profile no exception leaves scan(), whichever step fails.
C9_NoExceptionEscapesScan == profile \in ProfileNames => raised = "none"

\* C10: a scan() that returns the empty result has created or overwritten no report file.
C10_EmptyResultWritesNoFile == returned = "empty" => (written = <<>> /\ DOMAIN fs = {})

\* C11: scan() called with a profile name that is not a key of the profile table raises
\* ValueError to the caller: no scanning subprocess has been started, no report file has
\* been written, and nothing is returned in its place.
C11_InvalidProfileRaisesFirst ==
    /\ (pc # "idle" /\ profile \notin DOMAIN scan_profiles)
       => /\ pc = "raised"
          /\ raised = "ValueError"
          /\ returned = "none"
          /\ spawns = 0
          /\ written = <<>>
          /\ DOMAIN fs = {}
    /\ raised = "ValueError" => profile \notin DOMAIN scan_profiles

\* scan("stealth") has raised
C11_Witness == pc = "raised" /\ profile = "stealth" /\ raised = "ValueError"

-----------------------------------------------------------------------------
(* properties of construction followed by scan(), checked under MainSpec *)

\* C12: when the nmap binary is missing, constructing the scanner ends the process with
\* SystemExit and no scanning subprocess is ever started; when the version check times
\* out, only the warning is printed, nothing is raised, and the scanner is constructed,
\* so scan() runs afterwards.
C12_EnvironmentCheckGatesScanning ==
    /\ env.outcome = "missing"
       => /\ env.exit = "SystemExit"
          /\ pc = "exited"
    /\ pc \in {"construct", "exited"}
       => /\ spawns = 0
          /\ profile = ""
          /\ returned = "none"
    /\ env.outcome = "timeout"
       => /\ env.exit = "none"
          /\ env.printed = "Nmap version check timed out"
          /\ pc \notin {"construct", "exited"}

\* a scan has run to its end on a scanner whose version check timed out
C12_Witness == env.outcome = "timeout" /\ spawns = 1 /\ returned = "full"

\* C13: the profile table holds the five profiles discovery, quick, comprehensive,
\* vulnerability and udp, each with a non-empty command, description and time, and it is
\* the table of the class definition in every state: construction, scan, parsing and
\* report writing leave it as it is.
C13_ProfileTableFixed ==
    /\ DOMAIN scan_profiles = {"discovery", "quick", "comprehensive", "vulnerability", "udp"}
    /\ \A n \in DOMAIN scan_profiles :
          /\ DOMAIN scan_profiles[n] = {"command", "description", "time"}
          /\ scan_profiles[n].command # ""
          /\ scan_profiles[n].description # ""
          /\ scan_profiles[n].time # ""
    /\ scan_profiles = SCAN_PROFILES

\* construction, a udp scan, parsing, report writing and display have all happened
C13_Witness ==
    /\ env.outcome = "ok"
    /\ profile = "udp"
    /\ saves = 1
    /\ displayed
    /\ scan_profiles["udp"].command = "-sU --top-ports 100"

-----------------------------------------------------------------------------
(* properties of the line pass of _parse_statistics, checked under ParseSpec *)

Min(a, b) == IF a < b THEN a ELSE b

\* the loop stands right after the iteration for lines[idx - 1]
LineDone == pc = "parse_loop" /\ idx > 1

\* C14 as stated: right after a line containing "scan report for" in any letter case,
\* with or without "Nmap" before it, has been processed, hosts_up is 1 and scan_status is
\* "host_found".
C14_ScanReportForSetsHostFound ==
    (LineDone /\ Contains(lower(lines[idx - 1]), "scan report for"))
    => (stats.hosts_up = 1 /\ stats.scan_status = "host_found")

\* C14 amended: right after a line containing "nmap scan report for" in any letter case
\* has been processed, hosts_up is 1 and scan_status is "host_found".
C14_NmapScanReportForSetsHostFound ==
    (LineDone /\ Contains(lower(lines[idx - 1]), "nmap scan report for"))
    => (stats.hosts_up = 1 /\ stats.scan_status = "host_found")

\* an upper-case report line has just been processed, after a line that left hosts_up at 0
C14_Witness ==
    /\ LineDone
    /\ idx = 3
    /\ lines[1] = "scan report for 10.0.0.9"
    /\ lines[2] = "NMAP SCAN REPORT FOR 10.0.0.7"
    /\ stats.hosts_up = 1
    /\ stats.scan_status = "host_found"

\* the iteration for lines[idx] appends a record
AppendsRecord ==
    /\ pc = "parse_loop"
    /\ idx <= Len(lines)
    /\ Len(stats'.open_ports) = Len(stats.open_ports) + 1

\* a line the lookahead may take as a service name
Eligible(l) == strip(l) # "" /\ ~AnyIn(LookaheadStop, lower(strip(l)))

\* the service of the port line at position at: its third token, else the first eligible
\* one of the three lines after position at, else "unknown"
ServiceAt(ls, at) ==
    LET parts == split(ls[at])
        after == {i \in (at + 1)..Min(at + 3, Len(ls)) : Eligible(ls[i])}
    IN  IF Len(parts) > 2 THEN parts[3]
        ELSE IF after # {} THEN strip(ls[CHOOSE i \in after : \A k \in after : i <= k])
        ELSE "unknown"

\* C16: the record appended for an open-port line has as service the line's third token
\* when there is one, and otherwise the first non-empty line without "nmap", "port",
\* "service", "state" among the three lines that follow the line's own position (else
\* "unknown"), also when an identical line stands earlier in the output. Port lines whose
\* third token is the word "unknown" are left aside here: what happens to them is C3's.
C16_LookaheadFromOwnPosition ==
    [][(AppendsRecord /\ ~(Len(split(lines[idx])) > 2 /\ split(lines[idx])[3] = "unknown"))
       => stats'.open_ports[Len(stats'.open_ports)].service = ServiceAt(lines, idx)]_vars

\* the iteration for lines[idx] is about to run
AtLine == pc = "parse_loop" /\ idx <= Len(lines)

\* a line that ends the port section
ExitLine(l) ==
    startswith(l, "Nmap") \/ Contains(lower(l), "read data files") \/ strip(l) = ""

\* C17: a record is appended only by a line processed in port-section mode, and never by
\* a header line; the mode is entered only by a header line (containing "port", "state"
\* and "service"), and it is left by exactly the lines that start with "Nmap", contain
\* "read data files" or are blank. So a port line before any header, or between such an
\* exit line and the next header, appends nothing.
C17_RecordsOnlyInPortSection ==
    [][AtLine
       => LET header == IsPortHeader(lower(lines[idx]))
          IN  /\ AppendsRecord => (in_port_section /\ ~header)
              /\ ~AppendsRecord => stats'.open_ports = stats.open_ports
              /\ header => in_port_section'
              /\ (~in_port_section /\ in_port_section') => header
              /\ (in_port_section /\ ~header)
                    => (in_port_section' <=> ~ExitLine(lines[idx]))]_vars

\* a port line after the closing line of the table has been processed without a record
C17_Witness ==
    /\ LineDone
    /\ idx = 4
    /\ lines = <<HeaderLine, "Read data files from: /usr/share/nmap", "80/tcp open http">>
    /\ ~in_port_section
    /\ stats.open_ports = <<>>

\* the first token of the line contains "/tcp" or "/udp"
HasProtocolToken(l) ==
    Len(split(l)) >= 1 /\ (Contains(split(l)[1], "/tcp") \/ Contains(split(l)[1], "/udp"))

\* C18: when every line of the output other than blank lines and table headers has a
\* first token containing "/tcp" or "/udp", every record of the returned open_ports has a
\* state equal to "open" ignoring case and a protocol that is exactly "tcp" or "udp".
C18_RecordsAreOpenTcpOrUdp ==
    (/\ pc = "parse_done"
     /\ \A i \in 1..Len(InputLines) :
            \/ strip(InputLines[i]) = ""
            \/ IsPortHeader(lower(InputLines[i]))
            \/ HasProtocolToken(InputLines[i]))
    => \A j \in 1..Len(stats.open_ports) :
          /\ lower(stats.open_ports[j].state) = "open"
          /\ stats.open_ports[j].protocol \in {"tcp", "udp"}

\* C20: the statistics _parse_statistics returns have hosts_up 0 or 1, a scan_status
\* among unknown, host_found, host_up, host_down, implied_host_up, completed,
\* completed_no_hosts and no_output, and hosts_up = 1 exactly when scan_status is
\* host_found, host_up or implied_host_up.
C20_HostsUpAgreesWithStatus ==
    pc = "parse_done"
    => /\ stats.hosts_up \in {0, 1}
       /\ stats.scan_status \in {"unknown", "host_found", "host_up", "host_down",
                                  "implied_host_up", "completed", "completed_no_hosts",
                                  "no_output"}
       /\ stats.hosts_up = 1
            <=> stats.scan_status \in {"host_found", "host_up", "implied_host_up"}

\* a report line has set hosts_up to 1 and a later "Host seems down" line has set it back
C20_Witness ==
    /\ pc = "parse_done"
    /\ InputLines[1] = ReportLine
    /\ stats.scan_status = "host_down"
    /\ stats.hosts_up = 0

\* the host rule the line matches, in the order the rules are tried; 0 for none
RuleOf(l) ==
    IF Contains(lower(l), "nmap scan report for") THEN 1
    ELSE IF Contains(lower(l), "host is up")
            \/ (Contains(lower(l), "up") /\ Contains(lower(l), "host")) THEN 2
    ELSE IF Contains(lower(l), "0 hosts up") \/ Contains(lower(l), "host seems down") THEN 3
    ELSE 0

\* hosts_up and scan_status as each rule sets them
PairOf(rule) ==
    CASE rule = 1 -> <<1, "host_found">>
      [] rule = 2 -> <<1, "host_up">>
      [] rule = 3 -> <<0, "host_down">>
      [] OTHER -> <<0, "unknown">>

\* the positions among the first n lines on which a host rule fired
Fired(n) == {i \in 1..n : RuleOf(lines[i]) # 0}

\* the pair set by the last of the first n lines on which a host rule fired
LastPair(n) ==
    IF Fired(n) = {} THEN PairOf(0)
    ELSE PairOf(RuleOf(lines[CHOOSE i \in Fired(n) : \A j \in Fired(n) : i >= j]))

\* C21: all through the line pass, hosts_up and scan_status are the pair set by the last
\* line processed so far on which a host rule fired, the rule of a line being the first
\* of rule 1, rule 2, rule 3 that matches it; the returned statistics keep the pair of
\* the last such line when some rule fired and no open port was recorded. So "Host seems
\* down" after "Nmap scan report for" ends with hosts_up = 0 and "host_down".
C21_LastHostRuleWins ==
    /\ pc = "parse_loop" => <<stats.hosts_up, stats.scan_status>> = LastPair(idx - 1)
    /\ (pc = "parse_done" /\ output # "" /\ stats.open_ports = <<>>
            /\ Fired(Len(lines)) # {})
       => <<stats.hosts_up, stats.scan_status>> = LastPair(Len(lines))

\* the pass over a report line followed by "Host seems down" has reached its end
C21_Witness ==
    /\ pc = "parse_loop"
    /\ idx > Len(lines)
    /\ lines = <<ReportLine, "Note: Host seems down.">>
    /\ stats.hosts_up = 0
    /\ stats.scan_status = "host_down"

-----------------------------------------------------------------------------
(* properties of _display_results, checked under DisplaySpec *)

\* the entries of the summary printed by one statement
Printed(stmt) == SelectSeq(summary, LAMBDA e : e.stmt = stmt)

EndsWithDots(s) == Len(s) >= 3 /\ SubSeq(s, Len(s) - 2, Len(s)) = "..."

\* text is lead followed by item, or by a cut of item when item is longer than width:
\* width characters, the first width - 3 of item and then "..."
ShowsCut(text, lead, item, width) ==
    /\ startswith(text, lead)
    /\ LET shown == From(text, Len(lead) + 1)
       IN  IF Len(item) > width
           THEN /\ Len(shown) = width
                /\ EndsWithDots(shown)
                /\ SubSeq(shown, 1, width - 3) = SubSeq(item, 1, width - 3)
           ELSE shown = item

\* C15: for a result with n open ports and m vulnerability lines, the printed summary has
\* min(n, 5) port entries, and a line "... and n - 5 more" exactly when n > 5; it has
\* min(m, 3) vulnerability entries, and a line "... and m - 3 more" exactly when m > 3;
\* a service longer than 30 characters is shown as 30 characters ending in "...", a
\* vulnerability line longer than 60 characters as 60 characters ending in "...".
C15_SummaryIsTruncated ==
    displayed
    => LET ports == result.statistics.open_ports
           vulns == result.statistics.vulnerabilities
           n == Len(ports)
           m == Len(vulns)
       IN  /\ Len(Printed("port")) = Min(n, 5)
           /\ Printed("more_ports") =
                 IF n > 5 THEN <<Entry("more_ports", "  ... and " \o IntToStr(n - 5) \o " more")>>
                 ELSE <<>>
           /\ Len(Printed("vuln")) = Min(m, 3)
           /\ Printed("more_vulns") =
                 IF m > 3 THEN <<Entry("more_vulns", "  ... and " \o IntToStr(m - 3) \o " more")>>
                 ELSE <<>>
           /\ \A i \in 1..Min(n, 5) :
                 ShowsCut(Printed("port")[i].text,
                          "  - Port " \o ports[i].port \o "/" \o ports[i].protocol \o ": ",
                          ports[i].service, 30)
           /\ \A i \in 1..Min(m, 3) : ShowsCut(Printed("vuln")[i].text, "  - ", vulns[i], 60)

\* six ports with a service of 31 characters and four vulnerability lines of 61
\* characters have been displayed
C15_Witness ==
    /\ displayed
    /\ Len(result.statistics.open_ports) = 6
    /\ Len(result.statistics.vulnerabilities) = 4
    /\ Len(result.statistics.open_ports[1].service) = 31
    /\ Len(result.statistics.vulnerabilities[1]) = 61
    /\ Len(Printed("more_ports")) = 1
    /\ Len(Printed("more_vulns")) = 1

-----------------------------------------------------------------------------
(* properties of two _save_reports invocations, checked under PairSpec *)

\* target.replace('/', '_').replace('.', '_')
Sanitized(tgt) == replace(replace(tgt, "/", "_"), ".", "_")

BothSaved == pc = "saved" /\ saves = 2

\* C19: two invocations that have saved into the same directory have a report file name
\* in common only if their timestamps were taken in the same second, and then all four
\* names are the same and the files hold the later invocation's reports; within the same
\* second the names are the same exactly when the profiles are equal and the targets are
\* equal after '/' and '.' have been replaced by '_'.
C19_NamesCollideOnlyInSameSecond ==
    BothSaved
    => /\ Range(written) \cap Range(earlier.files) # {}
          => /\ clock = earlier.clock
             /\ written = earlier.files
             /\ DOMAIN fs = Range(written)
             /\ \A f \in DOMAIN fs : fs[f].target = target
       /\ clock = earlier.clock
          => (written = earlier.files
                <=> (profile = earlier.profile
                       /\ Sanitized(target) = Sanitized(earlier.target)))

\* two different targets with the same sanitized form were saved in the same second with
\* the same profile, and the later files replaced the earlier ones
C19_Witness ==
    /\ BothSaved
    /\ clock = earlier.clock
    /\ target = "10.0.0/5"
    /\ earlier.target = "10.0.0.5"
    /\ profile = earlier.profile
    /\ written = earlier.files
    /\ Cardinality(DOMAIN fs) = 4

-----------------------------------------------------------------------------
(* properties of scan() followed by json_to_html, checked under ConvertSpec *)

\* C22: after a scan has returned its result, json_to_html run on the <base>.json of
\* that scan takes <base>_report.html, the path of the scanner's HTML report, as its
\* output path; when it returns that path, the file there is the converter's page and no
\* longer the scanner's report, and the page shows target and scan type "Unknown".
C22_ConverterReplacesScannerReport ==
    (returned \in {"full", "partial"} /\ converted.json_file = base_name \o ".json")
    => /\ converted.html_file # "" => converted.html_file = base_name \o "_report.html"
       /\ converted.returned # "None"
          => /\ converted.returned = base_name \o "_report.html"
             /\ fs[converted.returned].by = "json_to_html"
             /\ fs[converted.returned].target = "Unknown"
             /\ fs[converted.returned].profile = "Unknown"

====
